---- MODULE Spec2Model ----
(***************************************************************************)
(* Model of backend/api_server.py (Shop Fluid Advisor): the spec           *)
(* normaliser, the extraction of vehicle and fluid requirements from a     *)
(* decoded record, the matching of requirements against the inventory and  *)
(* the request handler get_fluids_for_vin.                                 *)
(*                                                                         *)
(* A Python str is a sequence of one-character strings.  A Python value    *)
(* of dynamic type is a tagged record: [t |-> "none"], [t |-> "str", v],   *)
(* PyInt(n).  A dict is a function from its keys to values and     *)
(* dict.get is Get.                                                        *)
(***************************************************************************)
EXTENDS Integers, Sequences, FiniteSets, TLC

VARIABLES FLUID_INVENTORY, config_ok, pc,
          s_in, s_out,
          reqs_in, fluid_reqs,
          data, extracted,
          vin_in, upstream, status, response, calls

vars == <<FLUID_INVENTORY, config_ok, pc, s_in, s_out, reqs_in, fluid_reqs,
          data, extracted, vin_in, upstream, status, response, calls>>

\* ---------------------------------------------------------------------
\* Bounds
\* ---------------------------------------------------------------------
MaxLen == 4
MaxProducts == 2
MaxReqs == 2
MaxServedProducts == 1
MaxPad == 1
MaxVinLen == 18

\* ---------------------------------------------------------------------
\* Python str primitives
\* ---------------------------------------------------------------------
\* the characters str.strip() with no argument removes
Whitespace == {" ", "\t", "\n"}

\* str.upper() on one character
UpperChar(c) == CASE c = "a" -> "A"
                  [] c = "b" -> "B"
                  [] OTHER -> c

Upper(s) == [i \in 1..Len(s) |-> UpperChar(s[i])]

RECURSIVE LStrip(_)
LStrip(s) == IF s # <<>> /\ Head(s) \in Whitespace THEN LStrip(Tail(s)) ELSE s

RECURSIVE RStrip(_)
RStrip(s) == IF s # <<>> /\ s[Len(s)] \in Whitespace
             THEN RStrip(SubSeq(s, 1, Len(s) - 1)) ELSE s

Strip(s) == RStrip(LStrip(s))

\* s.replace(c, "")
RemoveAll(s, c) == SelectSeq(s, LAMBDA x : x # c)

\* s.replace(c, "", 1)
RECURSIVE RemoveFirst(_, _)
RemoveFirst(s, c) == IF s = <<>> THEN <<>>
                     ELSE IF Head(s) = c THEN Tail(s)
                     ELSE <<Head(s)>> \o RemoveFirst(Tail(s), c)

\* the normaliser with the replacement limited to the first space
normalize_spec_first_only(s) == RemoveFirst(Upper(Strip(s)), " ")

normalize_spec(s) == RemoveAll(Upper(Strip(s)), " ")

\* all strings over an alphabet up to a length
RECURSIVE StringsUpTo(_, _)
StringsUpTo(A, n) == IF n = 0 THEN {<<>>}
                     ELSE LET P == StringsUpTo(A, n - 1)
                          IN P \cup {Append(p, c) : p \in {q \in P : Len(q) = n - 1}, c \in A}

SpecChars == {" ", "\t", "a", "A", "-"}
SpecStrings == StringsUpTo(SpecChars, MaxLen)

\* ---------------------------------------------------------------------
\* Applying normalize_spec, and applying it again to its own result
\* ---------------------------------------------------------------------
Idle == <<>>

InitNormalize ==
    /\ s_in \in SpecStrings
    /\ s_out = <<>>
    /\ pc = "normalize"
    /\ FLUID_INVENTORY = <<>> /\ config_ok = FALSE
    /\ reqs_in = <<>> /\ fluid_reqs = <<>>
    /\ data = Idle /\ extracted = Idle
    /\ vin_in = <<>> /\ upstream = Idle /\ status = 0 /\ response = Idle
    /\ calls = <<>>

Normalize ==
    /\ pc = "normalize"
    /\ Len(s_out) < 2
    /\ s_out' = Append(s_out, normalize_spec(IF s_out = <<>> THEN s_in ELSE s_out[Len(s_out)]))
    /\ UNCHANGED <<FLUID_INVENTORY, config_ok, pc, s_in, reqs_in, fluid_reqs,
                   data, extracted, vin_in, upstream, status, response, calls>>

NextNormalize == Normalize

SpecNormalize == InitNormalize /\ [][NextNormalize]_vars

\* C8: applying normalize_spec to its own result changes nothing.
NormalizeIdempotent == Len(s_out) = 2 => s_out[2] = s_out[1]

\* a string with a tab inside and spaces around has been normalised twice
NormalizeIdempotentWitness ==
    /\ Len(s_out) = 2
    /\ \E i \in 1..Len(s_in) : s_in[i] = " "
    /\ \E i \in 1..Len(s_out[1]) : s_out[1][i] = "\t"

HasWhitespace(s) == \E i \in 1..Len(s) : s[i] \in Whitespace

\* C7: the result of normalize_spec is the stripped, upper-cased input
\* with every whitespace character removed, so it holds no whitespace.
NormalizeRemovesAllWhitespace ==
    Len(s_out) >= 1 =>
        /\ ~HasWhitespace(s_out[1])
        /\ s_out[1] = SelectSeq(Upper(s_in), LAMBDA x : x \notin Whitespace)
\* ---------------------------------------------------------------------
\* Data models
\* ---------------------------------------------------------------------
FluidSystem == {"transmission", "front_diff", "rear_diff", "transfer_case",
                "coolant", "power_steering", "engine_oil"}

PyNone == [t |-> "none"]
PyStr(s) == [t |-> "str", v |-> s]
PyInt(n) == [t |-> "int", v |-> n]

FluidProduct(id, name, type, compatible_specs, not_for_specs) ==
    [id |-> id, name |-> name, type |-> type,
     compatible_specs |-> compatible_specs, not_for_specs |-> not_for_specs]

FluidMatch(product, match_reason) == [product |-> product, match_reason |-> match_reason]

FluidWarning(message, products) == [message |-> message, products |-> products]

FluidRequirement(system, required_spec, oem_name, matches, warnings) ==
    [system |-> system, required_spec |-> required_spec, oem_name |-> oem_name,
     matches |-> matches, warnings |-> warnings]

\* all sequences over a set up to a length
RECURSIVE SeqsUpTo(_, _)
SeqsUpTo(S, n) == IF n = 0 THEN {<<>>}
                  ELSE LET P == SeqsUpTo(S, n - 1)
                       IN P \cup {Append(p, x) : p \in {q \in P : Len(q) = n - 1}, x \in S}

\* x in xs, for a Python list xs
InList(x, xs) == \E i \in 1..Len(xs) : xs[i] = x

\* ---------------------------------------------------------------------
\* Matching logic
\* ---------------------------------------------------------------------
\* the loop body with the product type test left out
ProductStepAnySystem(acc, product, req, required_norm) ==
    LET compat_norm == [i \in 1..Len(product.compatible_specs) |->
                            normalize_spec(product.compatible_specs[i])]
        not_for_norm == [i \in 1..Len(product.not_for_specs) |->
                            normalize_spec(product.not_for_specs[i])]
    IN IF InList(required_norm, not_for_norm)
       THEN [acc EXCEPT !.explicit_bad = Append(@, product.name)]
       ELSE IF InList(required_norm, compat_norm)
       THEN [acc EXCEPT !.matches = Append(@,
                FluidMatch(product, <<"explicit match", req.required_spec, product.name>>))]
       ELSE acc

\* the loop body with the forbidden branch falling through to the compatible test
ProductStepNoContinue(acc, product, req, required_norm) ==
    IF product.type # req.system THEN acc
    ELSE
    LET compat_norm == [i \in 1..Len(product.compatible_specs) |->
                            normalize_spec(product.compatible_specs[i])]
        not_for_norm == [i \in 1..Len(product.not_for_specs) |->
                            normalize_spec(product.not_for_specs[i])]
        acc1 == IF InList(required_norm, not_for_norm)
                THEN [acc EXCEPT !.explicit_bad = Append(@, product.name)]
                ELSE acc
    IN IF InList(required_norm, compat_norm)
       THEN [acc1 EXCEPT !.matches = Append(@,
                FluidMatch(product, <<"explicit match", req.required_spec, product.name>>))]
       ELSE acc1

\* body of "for product in FLUID_INVENTORY"; acc holds matches and explicit_bad
ProductStep(acc, product, req, required_norm) ==
    IF product.type # req.system THEN acc
    ELSE
    LET compat_norm == [i \in 1..Len(product.compatible_specs) |->
                            normalize_spec(product.compatible_specs[i])]
        not_for_norm == [i \in 1..Len(product.not_for_specs) |->
                            normalize_spec(product.not_for_specs[i])]
    IN IF InList(required_norm, not_for_norm)
       THEN [acc EXCEPT !.explicit_bad = Append(@, product.name)]
       ELSE IF InList(required_norm, compat_norm)
       THEN [acc EXCEPT !.matches = Append(@,
                FluidMatch(product, <<"explicit match", req.required_spec, product.name>>))]
       ELSE acc

RECURSIVE ProductLoop(_, _, _, _)
ProductLoop(acc, products, req, required_norm) ==
    IF products = <<>> THEN acc
    ELSE ProductLoop(ProductStep(acc, Head(products), req, required_norm),
                     Tail(products), req, required_norm)

NoCompatibleWarning(req) ==
    FluidWarning(<<"No compatible", req.system, req.required_spec>>, <<>>)

DoNotUseWarning(req, explicit_bad) ==
    FluidWarning(<<"DO NOT use", req.system, req.required_spec>>, explicit_bad)

\* the warnings with the second test made an elif of the first
BuildWarningsElif(req, matches, explicit_bad) ==
    IF matches = <<>> THEN <<NoCompatibleWarning(req)>>
    ELSE IF explicit_bad # <<>> THEN <<DoNotUseWarning(req, explicit_bad)>>
    ELSE <<>>

BuildWarnings(req, matches, explicit_bad) ==
    LET w1 == IF matches = <<>> THEN <<NoCompatibleWarning(req)>> ELSE <<>>
    IN IF explicit_bad # <<>> THEN Append(w1, DoNotUseWarning(req, explicit_bad)) ELSE w1

EmptyAcc == [matches |-> <<>>, explicit_bad |-> <<>>]

\* the requirement loop with matches and explicit_bad created once, before the loop
RECURSIVE EnrichSharedFrom(_, _, _)
EnrichSharedFrom(reqs, i, acc0) ==
    IF i > Len(reqs) THEN reqs
    ELSE LET req == reqs[i]
             acc == ProductLoop(acc0, FLUID_INVENTORY, req, normalize_spec(req.required_spec))
         IN EnrichSharedFrom(
                [reqs EXCEPT ![i] = [req EXCEPT
                    !.matches = acc.matches,
                    !.warnings = BuildWarnings(req, acc.matches, acc.explicit_bad)]],
                i + 1, acc)

enrich_with_matches_shared_lists(reqs) == EnrichSharedFrom(reqs, 1, EmptyAcc)

\* "for req in fluid_reqs", from the i-th requirement on; reqs is updated in place
RECURSIVE EnrichFrom(_, _)
EnrichFrom(reqs, i) ==
    IF i > Len(reqs) THEN reqs
    ELSE LET req == reqs[i]
             required_norm == normalize_spec(req.required_spec)
             acc == ProductLoop(EmptyAcc, FLUID_INVENTORY, req, required_norm)
         IN EnrichFrom(
                [reqs EXCEPT ![i] = [req EXCEPT
                    !.matches = acc.matches,
                    !.warnings = BuildWarnings(req, acc.matches, acc.explicit_bad)]],
                i + 1)

enrich_with_matches(reqs) == EnrichFrom(reqs, 1)

\* ---------------------------------------------------------------------
\* Inventories (fluid_inventory.json as loaded) and requirement lists
\* ---------------------------------------------------------------------
ProductPool ==
    { FluidProduct("p1", "ATF One", "transmission", << <<"A">> >>, <<>>),
      FluidProduct("p2", "ATF Two", "transmission",
                   << <<" ", "a", " ">>, <<"A">> >>, << <<"A", "A">> >>),
      FluidProduct("p3", "ATF Three", "transmission",
                   << <<"A", "-", "A">>, <<"A", "A">> >>, << <<"a", "-", "a">> >>),
      FluidProduct("p4", "Oil One", "engine_oil",
                   << <<"A">>, <<"A", " ", "A">> >>, <<>>),
      FluidProduct("p5", "Oil Two", "engine_oil", <<>>, << <<"a">> >>) }

Inventories == SeqsUpTo(ProductPool, MaxProducts)

ReqSystems == {"transmission", "engine_oil"}

ReqSpecPool == { <<"a">>, <<"A", "-", "A">>, <<"a", " ", "a">>, <<"A", "\t", "A">> }

ReqPool == { FluidRequirement(sys, sp, PyNone, <<>>, <<>>) : sys \in ReqSystems, sp \in ReqSpecPool }

InitEnrich ==
    /\ FLUID_INVENTORY \in Inventories
    /\ reqs_in \in SeqsUpTo(ReqPool, MaxReqs)
    /\ fluid_reqs = reqs_in
    /\ pc = "enrich"
    /\ s_in = <<>> /\ s_out = <<>> /\ config_ok = FALSE
    /\ data = Idle /\ extracted = Idle
    /\ vin_in = <<>> /\ upstream = Idle /\ status = 0 /\ response = Idle
    /\ calls = <<>>

Enrich ==
    /\ pc = "enrich"
    /\ fluid_reqs' = enrich_with_matches(fluid_reqs)
    /\ pc' = "enriched"
    /\ UNCHANGED <<FLUID_INVENTORY, config_ok, s_in, s_out, reqs_in,
                   data, extracted, vin_in, upstream, status, response, calls>>

NextEnrich == Enrich

SpecEnrich == InitEnrich /\ [][NextEnrich]_vars

\* product p lists the requirement's spec, up to normalisation, in not_for_specs
Forbids(p, r) ==
    \E j \in 1..Len(p.not_for_specs) :
        normalize_spec(p.not_for_specs[j]) = normalize_spec(r.required_spec)

\* product p lists the requirement's spec, up to normalisation, in compatible_specs
Accepts(p, r) ==
    \E j \in 1..Len(p.compatible_specs) :
        normalize_spec(p.compatible_specs[j]) = normalize_spec(r.required_spec)

DoNotUseProducts(r) ==
    UNION { {r.warnings[k].products[j] : j \in 1..Len(r.warnings[k].products)} :
              k \in {n \in 1..Len(r.warnings) : r.warnings[n].message[1] = "DO NOT use"} }

\* C1: a product of the requirement's system that forbids the required spec
\* is named in the "do not use" warning and is in no match, also when it
\* lists the same spec as compatible.
ForbiddenPrecedence ==
    pc = "enriched" =>
        \A i \in 1..Len(fluid_reqs) : \A k \in 1..Len(FLUID_INVENTORY) :
            LET r == fluid_reqs[i]
                p == FLUID_INVENTORY[k]
            IN (p.type = r.system /\ Forbids(p, r)) =>
                  /\ p.name \in DoNotUseProducts(r)
                  /\ \A m \in 1..Len(r.matches) : r.matches[m].product # p

\* a product that both accepts and forbids the required spec has been processed
ForbiddenPrecedenceWitness ==
    /\ pc = "enriched"
    /\ \E i \in 1..Len(fluid_reqs) : \E k \in 1..Len(FLUID_INVENTORY) :
          LET r == fluid_reqs[i]
              p == FLUID_INVENTORY[k]
          IN /\ p.type = r.system /\ Forbids(p, r) /\ Accepts(p, r)
             /\ p.name \in DoNotUseProducts(r)

Names(ps) == [j \in 1..Len(ps) |-> ps[j].name]

\* C2: the warnings are the "no compatible" warning, with no products,
\* exactly when there is no match, followed by the "do not use" warning
\* with the forbidding products' names in catalog order exactly when some
\* product of the system forbids the spec; nothing else.
WarningsExact ==
    pc = "enriched" =>
        \A i \in 1..Len(fluid_reqs) :
            LET r == fluid_reqs[i]
                bad == Names(SelectSeq(FLUID_INVENTORY,
                                LAMBDA p : p.type = r.system /\ Forbids(p, r)))
                first == IF r.matches = <<>>
                         THEN << [message |-> <<"No compatible", r.system, r.required_spec>>,
                                  products |-> <<>>] >>
                         ELSE <<>>
                second == IF bad # <<>>
                          THEN << [message |-> <<"DO NOT use", r.system, r.required_spec>>,
                                   products |-> bad] >>
                          ELSE <<>>
            IN /\ r.warnings = first \o second
               /\ Len(r.warnings) \in 0..2

\* requirements with zero, one and two warnings have been produced, one of
\* them with a match and a "do not use" warning
WarningsExactWitness ==
    /\ pc = "enriched"
    /\ \E i \in 1..Len(fluid_reqs) :
          /\ Len(fluid_reqs[i].warnings) = 1
          /\ fluid_reqs[i].matches # <<>>
          /\ fluid_reqs[i].warnings[1].message[1] = "DO NOT use"
    /\ \E i \in 1..Len(fluid_reqs) : Len(fluid_reqs[i].warnings) = 2

\* the string without any whitespace, in upper case
Squeezed(s) == SelectSeq(Upper(s), LAMBDA x : x \notin Whitespace)

\* a and b differ only in letter case and in spaces
SameUpToCaseAndSpaces(a, b) == Upper(RemoveAll(a, " ")) = Upper(RemoveAll(b, " "))

\* C3: the matches are the products of the requirement's system that do
\* not forbid and do accept the required spec, in catalog order, once
\* each; a compatible spec equal up to case and spaces matches, and a
\* match never unifies specs whose non-blank characters differ.
MatchesExact ==
    pc = "enriched" =>
        \A i \in 1..Len(fluid_reqs) :
            LET r == fluid_reqs[i]
                expected == SelectSeq(FLUID_INVENTORY,
                                LAMBDA p : /\ p.type = r.system
                                           /\ ~Forbids(p, r)
                                           /\ Accepts(p, r))
            IN /\ [j \in 1..Len(r.matches) |-> r.matches[j].product] = expected
               /\ \A j \in 1..Len(r.matches) :
                     /\ r.matches[j].product.type = r.system
                     /\ \E c \in 1..Len(r.matches[j].product.compatible_specs) :
                           Squeezed(r.matches[j].product.compatible_specs[c])
                             = Squeezed(r.required_spec)
               /\ \A k \in 1..Len(FLUID_INVENTORY) :
                     LET p == FLUID_INVENTORY[k]
                     IN (/\ p.type = r.system
                         /\ ~Forbids(p, r)
                         /\ \E c \in 1..Len(p.compatible_specs) :
                               SameUpToCaseAndSpaces(p.compatible_specs[c], r.required_spec))
                        => InList(p, [j \in 1..Len(r.matches) |-> r.matches[j].product])

\* a product that lists the spec twice (in different case and spacing) is
\* matched once, next to a product of another system that lists it too
MatchesExactWitness ==
    /\ pc = "enriched"
    /\ \E i \in 1..Len(fluid_reqs) :
          LET r == fluid_reqs[i]
          IN /\ Len(r.matches) = 1
             /\ Cardinality({c \in 1..Len(r.matches[1].product.compatible_specs) :
                    normalize_spec(r.matches[1].product.compatible_specs[c])
                      = normalize_spec(r.required_spec)}) = 2
             /\ \E k \in 1..Len(FLUID_INVENTORY) :
                   FLUID_INVENTORY[k].type # r.system /\ Accepts(FLUID_INVENTORY[k], r)

Perms(n) == {f \in [1..n -> 1..n] : \A a, b \in 1..n : f[a] = f[b] => a = b}

\* after the call the requirements and their order are those passed in, and
\* a requirement's matches and warnings are those it gets when enriched
\* alone and in any permutation of the list
EnrichIndependentState ==
    pc = "enriched" =>
        /\ Len(fluid_reqs) = Len(reqs_in)
        /\ \A i \in 1..Len(fluid_reqs) :
              /\ fluid_reqs[i].system = reqs_in[i].system
              /\ fluid_reqs[i].required_spec = reqs_in[i].required_spec
              /\ fluid_reqs[i].oem_name = reqs_in[i].oem_name
              /\ LET alone == enrich_with_matches(<<reqs_in[i]>>)[1]
                 IN /\ fluid_reqs[i].matches = alone.matches
                    /\ fluid_reqs[i].warnings = alone.warnings
        /\ \A f \in Perms(Len(reqs_in)) :
              LET out == enrich_with_matches([j \in 1..Len(reqs_in) |-> reqs_in[f[j]]])
              IN \A j \in 1..Len(reqs_in) :
                    /\ out[j].matches = fluid_reqs[f[j]].matches
                    /\ out[j].warnings = fluid_reqs[f[j]].warnings

\* C9: the call keeps the requirements and their order and leaves the
\* inventory alone, and a requirement's matches and warnings depend only on
\* that requirement and the inventory: they are the same when it is enriched
\* alone and in any permutation of the list.
EnrichIndependent ==
    /\ []EnrichIndependentState
    /\ [][FLUID_INVENTORY' = FLUID_INVENTORY]_vars

\* two different requirements, the first with a match and a forbidding
\* product, have been enriched in one call
EnrichIndependentWitness ==
    /\ pc = "enriched"
    /\ Len(fluid_reqs) >= 2
    /\ fluid_reqs[1].matches # <<>>
    /\ fluid_reqs[2].matches # fluid_reqs[1].matches
    /\ \E i \in 1..Len(fluid_reqs) : DoNotUseProducts(fluid_reqs[i]) # {}
\* ---------------------------------------------------------------------
\* Python values, dicts and truthiness
\* ---------------------------------------------------------------------
Absent == [t |-> "absent"]

EmptyDict == [k \in {} |-> PyNone]

\* d.get(k, default)
Get(d, k, default) == IF k \in DOMAIN d THEN d[k] ELSE default

\* bool(x)
Truthy(x) == CASE x.t = "none" -> FALSE
               [] x.t = "str" -> x.v # <<>>
               [] x.t = "int" -> x.v # 0

\* a or b
PyOr(a, b) == IF Truthy(a) THEN a ELSE b

DigitVal(c) == CASE c = "0" -> 0 [] c = "1" -> 1 [] c = "2" -> 2 [] c = "9" -> 9

Digits == {"0", "1", "2", "9"}

RECURSIVE DecimalValue(_)
DecimalValue(s) == IF s = <<>> THEN 0
                   ELSE 10 * DecimalValue(SubSeq(s, 1, Len(s) - 1)) + DigitVal(s[Len(s)])

\* int(x): the value, or the exception it raises
PyIntOf(x) ==
    IF x.t = "int" THEN [exc |-> "none", v |-> x.v]
    ELSE LET s == Strip(x.v)
         IN IF s # <<>> /\ \A i \in 1..Len(s) : s[i] \in Digits
            THEN [exc |-> "none", v |-> DecimalValue(s)]
            ELSE [exc |-> "ValueError", v |-> 0]

\* ---------------------------------------------------------------------
\* extract_vehicle_and_fluids
\* ---------------------------------------------------------------------
\* the lookups and add_req calls, in program order
FluidFields ==
    << [system |-> "transmission",   tech |-> "transmission_fluid_spec", service |-> "transmission_fluid"],
       [system |-> "coolant",        tech |-> "coolant_spec",            service |-> "coolant"],
       [system |-> "front_diff",     tech |-> "front_diff_fluid",        service |-> "front_axle_fluid"],
       [system |-> "rear_diff",      tech |-> "rear_diff_fluid",         service |-> "rear_axle_fluid"],
       [system |-> "transfer_case",  tech |-> "tcase_fluid",             service |-> "transfer_case_fluid"],
       [system |-> "power_steering", tech |-> "ps_fluid",                service |-> "power_steering_fluid"],
       [system |-> "engine_oil",     tech |-> "engine_oil_spec",         service |-> "engine_oil"] >>

VehicleInfo(vin, year, make, model, trim, engine) ==
    [vin |-> vin, year |-> year, make |-> make, model |-> model, trim |-> trim, engine |-> engine]

add_req(fluid_requirements, system, spec) ==
    IF ~Truthy(spec) THEN fluid_requirements
    ELSE Append(fluid_requirements,
                FluidRequirement(system, Strip(spec.v), PyNone, <<>>, <<>>))

RECURSIVE AddReqs(_, _, _, _)
AddReqs(fluid_requirements, tech, service, i) ==
    IF i > Len(FluidFields) THEN fluid_requirements
    ELSE LET f == FluidFields[i]
             spec == PyOr(Get(tech, f.tech, PyNone), Get(service, f.service, PyNone))
         IN AddReqs(add_req(fluid_requirements, f.system, spec), tech, service, i + 1)

\* the result: the exception that left the function, or the returned pair
extract_vehicle_and_fluids(d) ==
    LET vehicle_record == Get(Get(d, "data", EmptyDict), "vehicle", EmptyDict)
        year == Get(vehicle_record, "year", PyNone)
        make == Get(vehicle_record, "make", PyNone)
        model == Get(vehicle_record, "model", PyNone)
        trim == Get(vehicle_record, "trim", PyNone)
        engine_desc == Get(Get(vehicle_record, "engine", EmptyDict), "description", PyNone)
        vin == PyOr(Get(vehicle_record, "vin", PyNone),
                    Get(Get(d, "request", EmptyDict), "vin", PyStr(<<"UNKNOWN">>)))
        year_int == IF Truthy(year) THEN PyIntOf(year) ELSE [exc |-> "none", v |-> 0]
        tech == Get(Get(d, "data", EmptyDict), "tech_specs", EmptyDict)
        service == Get(Get(d, "data", EmptyDict), "service_data", EmptyDict)
    IN IF year_int.exc # "none"
       THEN [exc |-> year_int.exc]
       ELSE [exc |-> "none",
             vehicle |-> VehicleInfo(vin,
                                     IF Truthy(year) THEN PyInt(year_int.v) ELSE PyNone,
                                     make, model, trim, engine_desc),
             fluid_requirements |-> AddReqs(<<>>, tech, service, 1)]

\* ---------------------------------------------------------------------
\* Decoded records
\* ---------------------------------------------------------------------
\* the dict holding the entries of f that are not Absent
DictOf(f) == [k \in {x \in DOMAIN f : f[x].t # "absent"} |-> f[k]]

YearValues == { Absent, PyNone, PyInt(0), PyInt(2020), PyStr(<<"1", "9">>),
                PyStr(<<" ", "2", " ">>), PyStr(<<"x">>), PyStr(<<>>) }

VinValues == { Absent, PyStr(<<"V", "1">>) }

VehicleRecords(years) ==
    { DictOf([k \in {"year", "vin", "make"} |->
                 CASE k = "year" -> y [] k = "vin" -> v [] k = "make" -> PyStr(<<"F">>)]) :
        y \in years, v \in VinValues }

RequestRecords == { EmptyDict, [vin |-> PyStr(<<"R", "1">>)] }

TechValues == { Absent, PyStr(<<>>), PyStr(<<" ">>), PyStr(<<" ", "A">>) }

ServiceValues == { Absent, PyStr(<<"B">>) }

FieldIndex(systems) == {i \in 1..Len(FluidFields) : FluidFields[i].system \in systems}

TechDicts(systems) ==
    { [k \in {FluidFields[i].tech : i \in {j \in FieldIndex(systems) : f[j].t # "absent"}} |->
          f[CHOOSE i \in FieldIndex(systems) : FluidFields[i].tech = k]] :
        f \in [FieldIndex(systems) -> TechValues] }

ServiceDicts(systems) ==
    { [k \in {FluidFields[i].service : i \in {j \in FieldIndex(systems) : f[j].t # "absent"}} |->
          f[CHOOSE i \in FieldIndex(systems) : FluidFields[i].service = k]] :
        f \in [FieldIndex(systems) -> ServiceValues] }

\* the inner "data" dict: a key is there when its dict is not empty
InnerDicts(techSystems, serviceSystems, years) ==
    { [k \in ((IF withVehicle THEN {"vehicle"} ELSE {})
                \cup (IF DOMAIN tech # {} THEN {"tech_specs"} ELSE {})
                \cup (IF DOMAIN service # {} THEN {"service_data"} ELSE {})) |->
          CASE k = "vehicle" -> veh
            [] k = "tech_specs" -> tech
            [] k = "service_data" -> service] :
        withVehicle \in BOOLEAN, veh \in VehicleRecords(years),
        tech \in TechDicts(techSystems), service \in ServiceDicts(serviceSystems) }

DecodedRecords(techSystems, serviceSystems, years, requests) ==
    { [k \in {"data"} |-> inner] : inner \in InnerDicts(techSystems, serviceSystems, years) }
    \cup { [k \in {"data", "request"} |-> IF k = "data" THEN inner ELSE req] :
             inner \in InnerDicts(techSystems, serviceSystems, years), req \in requests }
    \cup { EmptyDict }

ExtractSystems == {"transmission", "coolant", "engine_oil"}

InitExtract ==
    /\ data \in DecodedRecords(ExtractSystems, ExtractSystems, YearValues, RequestRecords)
    /\ extracted = Idle
    /\ pc = "extract"
    /\ FLUID_INVENTORY = <<>> /\ config_ok = FALSE
    /\ s_in = <<>> /\ s_out = <<>>
    /\ reqs_in = <<>> /\ fluid_reqs = <<>>
    /\ vin_in = <<>> /\ upstream = Idle /\ status = 0 /\ response = Idle
    /\ calls = <<>>

Extract ==
    /\ pc = "extract"
    /\ extracted' = extract_vehicle_and_fluids(data)
    /\ pc' = "extracted"
    /\ UNCHANGED <<FLUID_INVENTORY, config_ok, s_in, s_out, reqs_in, fluid_reqs,
                   data, vin_in, upstream, status, response, calls>>

NextExtract == Extract

SpecExtract == InitExtract /\ [][NextExtract]_vars

\* the specification string the record holds for the i-th system
RawSpec(d, i) ==
    PyOr(Get(Get(Get(d, "data", EmptyDict), "tech_specs", EmptyDict), FluidFields[i].tech, PyNone),
         Get(Get(Get(d, "data", EmptyDict), "service_data", EmptyDict), FluidFields[i].service, PyNone))

\* C6: the extraction returns at most one requirement per system, only
\* for systems with a non-empty specification, and every requirement has
\* a non-blank required_spec and empty matches and warnings.
RequirementsWellFormed ==
    (pc = "extracted" /\ extracted.exc = "none") =>
        LET reqs == extracted.fluid_requirements
        IN /\ \A i, j \in 1..Len(reqs) : reqs[i].system = reqs[j].system => i = j
           /\ \A i \in 1..Len(reqs) :
                 /\ \E k \in 1..Len(FluidFields) :
                       /\ FluidFields[k].system = reqs[i].system
                       /\ Truthy(RawSpec(data, k))
                 /\ Strip(reqs[i].required_spec) # <<>>
                 /\ reqs[i].matches = <<>>
                 /\ reqs[i].warnings = <<>>

RawYear(d) == Get(Get(Get(d, "data", EmptyDict), "vehicle", EmptyDict), "year", PyNone)

IsNumeric(x) == x.t = "int" \/ (x.t = "str" /\ PyIntOf(x).exc = "none")

HasRawVin(d) ==
    \/ Truthy(Get(Get(Get(d, "data", EmptyDict), "vehicle", EmptyDict), "vin", PyNone))
    \/ "vin" \in DOMAIN Get(d, "request", EmptyDict)

\* C10: the extraction never fails on the year: the model year is the
\* integer value of a numeric raw year and is absent for a missing or
\* non-numeric one; the VIN is "UNKNOWN" when the record has none.
YearNeverFails ==
    pc = "extracted" =>
        /\ extracted.exc = "none"
        /\ IF IsNumeric(RawYear(data))
           THEN extracted.vehicle.year = PyInt(PyIntOf(RawYear(data)).v)
           ELSE extracted.vehicle.year = PyNone
        /\ ~HasRawVin(data) => extracted.vehicle.vin = PyStr(<<"UNKNOWN">>)
\* ---------------------------------------------------------------------
\* call_dataone and the request handler
\* ---------------------------------------------------------------------
VIN_LENGTH == 17

HTTP_OK == 200
HTTP_BAD_REQUEST == 400
HTTP_BAD_GATEWAY == 502
HTTP_SERVER_ERROR == 500

\* the length test accepting every VIN that is long enough
VinRejectedWhenShort(vin) == Len(vin) < VIN_LENGTH

\* "if len(vin) != 17"
VinRejected(vin) == Len(vin) # VIN_LENGTH

\* the exception call_dataone raises, or the decoded JSON it returns;
\* up is what the provider answers: status_code, whether the body is JSON, the body
call_dataone(vin, up) ==
    IF ~config_ok THEN [exc |-> "RuntimeError"]
    ELSE IF up.status_code # HTTP_OK THEN [exc |-> "RuntimeError"]
    ELSE IF ~up.json_ok THEN [exc |-> "ValueError"]
    ELSE [exc |-> "none", raw |-> up.body]

NoResponse == [sent |-> FALSE]

FluidResponse(vehicle, fluids) == [sent |-> TRUE, vehicle |-> vehicle, fluids |-> fluids]

\* "except RuntimeError" answers 502, "except Exception" answers 500
StatusOfException(exc) == IF exc = "RuntimeError" THEN HTTP_BAD_GATEWAY ELSE HTTP_SERVER_ERROR

\* the outcome of one request: the HTTP status, the response body and the calls made
get_fluids_for_vin(vin_param, up) ==
    LET vin == Upper(Strip(vin_param))
    IN IF VinRejected(vin)
       THEN [status |-> HTTP_BAD_REQUEST, response |-> NoResponse, calls |-> <<>>]
       ELSE
       LET decoded == call_dataone(vin, up)
       IN IF decoded.exc # "none"
          THEN [status |-> StatusOfException(decoded.exc), response |-> NoResponse,
                calls |-> << <<"call_dataone", vin>> >>]
          ELSE
          LET ex == extract_vehicle_and_fluids(decoded.raw)
          IN IF ex.exc # "none"
             THEN [status |-> StatusOfException(ex.exc), response |-> NoResponse,
                   calls |-> << <<"call_dataone", vin>>, <<"extract_vehicle_and_fluids">> >>]
             ELSE [status |-> HTTP_OK,
                   response |-> FluidResponse(ex.vehicle,
                                              enrich_with_matches(ex.fluid_requirements)),
                   calls |-> << <<"call_dataone", vin>>, <<"extract_vehicle_and_fluids">>,
                                <<"enrich_with_matches">> >>]

\* ---------------------------------------------------------------------
\* Requests
\* ---------------------------------------------------------------------
Repeat(c, n) == [i \in 1..n |-> c]

VinLengths == {0, 10} \cup ((VIN_LENGTH - 1)..MaxVinLen)

VinParams ==
    { Repeat(" ", l) \o Repeat(c, n) \o Repeat("\n", r) :
        l \in 0..MaxPad, r \in 0..MaxPad, n \in VinLengths, c \in {"a"} }

HandlerSystems == {"transmission"}

HandlerYears == { Absent, PyStr(<<"x">>) }

Upstreams ==
    { [status_code |-> HTTP_OK, json_ok |-> TRUE, body |-> b] :
        b \in DecodedRecords(HandlerSystems, {}, HandlerYears, {}) }
    \cup { [status_code |-> 503, json_ok |-> FALSE, body |-> EmptyDict],
           [status_code |-> HTTP_OK, json_ok |-> FALSE, body |-> EmptyDict] }

Init ==
    /\ FLUID_INVENTORY \in SeqsUpTo(ProductPool, MaxServedProducts)
    /\ config_ok \in BOOLEAN
    /\ pc = "ready"
    /\ vin_in = <<>> /\ upstream = Idle /\ status = 0 /\ response = NoResponse
    /\ calls = <<>>
    /\ s_in = <<>> /\ s_out = <<>>
    /\ reqs_in = <<>> /\ fluid_reqs = <<>>
    /\ data = Idle /\ extracted = Idle

GetFluidsForVin(vin_param, up) ==
    LET out == get_fluids_for_vin(vin_param, up)
    IN /\ pc = "ready"
       /\ vin_in' = vin_param
       /\ upstream' = up
       /\ status' = out.status
       /\ response' = out.response
       /\ calls' = out.calls
       /\ pc' = "responded"
       /\ UNCHANGED <<FLUID_INVENTORY, config_ok, s_in, s_out, reqs_in, fluid_reqs,
                      data, extracted>>

Next == \E vin_param \in VinParams, up \in Upstreams : GetFluidsForVin(vin_param, up)

Spec == Init /\ [][Next]_vars

\* C4: a VIN that is not 17 characters long after trimming and
\* upper-casing is answered 400 without any call to the decoder, the
\* extraction or the matching; a VIN of 17 characters reaches the decoder.
VinValidation ==
    pc = "responded" =>
        LET vin == Upper(Strip(vin_in))
        IN /\ Len(vin) # VIN_LENGTH =>
                (status = HTTP_BAD_REQUEST /\ calls = <<>> /\ ~response.sent)
           /\ Len(vin) = VIN_LENGTH =>
                (calls # <<>> /\ calls[1] = <<"call_dataone", vin>>)

\* a VIN of 17 characters of which one is padding has been refused
VinValidationWitness ==
    /\ pc = "responded"
    /\ Len(vin_in) = VIN_LENGTH
    /\ Len(Upper(Strip(vin_in))) = VIN_LENGTH - 1
    /\ status = HTTP_BAD_REQUEST
    /\ calls = <<>>

\* the decoded record holds no vehicle data and no fluid fields
NoResults(d) ==
    /\ DOMAIN Get(Get(d, "data", EmptyDict), "vehicle", EmptyDict) = {}
    /\ DOMAIN Get(Get(d, "data", EmptyDict), "tech_specs", EmptyDict) = {}
    /\ DOMAIN Get(Get(d, "data", EmptyDict), "service_data", EmptyDict) = {}

\* C5: a decoded record without results for a valid VIN ends the request
\* with an upstream failure and without a response.
NoResultsIsDecodingError ==
    (/\ pc = "responded"
     /\ Len(Upper(Strip(vin_in))) = VIN_LENGTH
     /\ config_ok /\ upstream.status_code = HTTP_OK /\ upstream.json_ok
     /\ NoResults(upstream.body))
    => (status = HTTP_BAD_GATEWAY /\ ~response.sent)
====
